---- MODULE Spec2Model ----
(***************************************************************************)
(* A model of the documentation generator's backend:                       *)
(*   src/backend/server.js   worker-based fetch, line chunker, retry       *)
(*                            client and the /generate-docs handler        *)
(*   src/unnamed/part_002    the variant that chunks while it fetches      *)
(*                                                                         *)
(* Text.  A JavaScript string is modelled as a sequence of runs.  A run    *)
(* [c |-> s, k |-> n] is the string s repeated n times; s holds no line    *)
(* break except in the run NL, which is the one character "\n".  Every     *)
(* operation the code performs on strings (length, +, split('\n'),         *)
(* join, truthiness) is computed on that representation, so texts of       *)
(* 40,000 or 500,000 characters are handled with the program's own         *)
(* constants.                                                              *)
(***************************************************************************)
EXTENDS Integers, Sequences, FiniteSets, TLC

\* --------------------------------------------------------------- bounds
\* Longest input, in lines, given to chunkSourceCode on its own.
MaxLines == 3
\* Largest retries argument given to callOpenAIWithRetry on its own.
MaxRetries == 4
\* Most items in the root listing of a repository.
MaxRootItems == 2

\* ------------------------------------------------------------ constants
\* chunkSourceCode(sourceCode, maxTokens = 10000)
DefaultMaxTokens == 10000

\* ----------------------------------------------------------------- text
Run(c, k) == [c |-> c, k |-> k]
NL == Run("\n", 1)
EmptyStr == <<>>

RECURSIVE StrLen(_)
\* String.prototype.length
StrLen(s) == IF s = <<>> THEN 0 ELSE Len(s[1].c) * s[1].k + StrLen(Tail(s))

\* if (currentChunk) ... : a string is truthy when it is not ''
Truthy(s) == s # <<>>

RECURSIVE Split(_)
\* String.prototype.split('\n'): ''.split('\n') is ['']
Split(s) ==
  IF \A i \in 1..Len(s) : s[i] # NL
  THEN <<s>>
  ELSE LET i == CHOOSE j \in 1..Len(s) : s[j] = NL /\ \A h \in 1..(j-1) : s[h] # NL
       IN <<SubSeq(s, 1, i-1)>> \o Split(SubSeq(s, i+1, Len(s)))

RECURSIVE Join(_, _)
\* Array.prototype.join(sep): [].join(sep) is ''
Join(parts, sep) ==
  IF parts = <<>> THEN <<>>
  ELSE IF Len(parts) = 1 THEN parts[1]
  ELSE parts[1] \o sep \o Join(Tail(parts), sep)

\* Math.ceil(n / 4) for n >= 0
CeilDiv4(n) == (n + 3) \div 4

\* countTokens of server.js: Math.ceil(text.length / 4)
countTokens(text) == CeilDiv4(StrLen(text))

\* ------------------------------------------------------ chunkSourceCode
\* One iteration of the for-loop of chunkSourceCode.  st holds the locals
\* chunks and currentChunk; units and curUnits only count the lines that
\* went into each chunk (bookkeeping of the model, not of the code).
ChunkLine(st, line, maxTok) ==
  LET lineTokens == countTokens(line)
      currentChunkTokens == countTokens(st.currentChunk)
  IN IF currentChunkTokens + lineTokens > maxTok
     THEN [chunks |-> Append(st.chunks, st.currentChunk),
           currentChunk |-> line,
           units |-> Append(st.units, st.curUnits),
           curUnits |-> 1]
     ELSE [chunks |-> st.chunks,
           currentChunk |-> st.currentChunk
                              \o (IF Truthy(st.currentChunk) THEN <<NL>> ELSE <<>>)
                              \o line,
           units |-> st.units,
           curUnits |-> st.curUnits + 1]

RECURSIVE ChunkLoop(_, _, _)
ChunkLoop(st, lines, maxTok) ==
  IF lines = <<>> THEN st
  ELSE ChunkLoop(ChunkLine(st, Head(lines), maxTok), Tail(lines), maxTok)

\* The whole function, with the per-chunk line counts beside the chunks.
ChunkRun(text, maxTok) ==
  LET st == ChunkLoop([chunks |-> <<>>, currentChunk |-> EmptyStr,
                       units |-> <<>>, curUnits |-> 0],
                      Split(text), maxTok)
  IN IF Truthy(st.currentChunk)
     THEN [chunks |-> Append(st.chunks, st.currentChunk),
           units |-> Append(st.units, st.curUnits)]
     ELSE [chunks |-> st.chunks, units |-> st.units]

chunkSourceCode(text, maxTok) == ChunkRun(text, maxTok).chunks

\* ---------------------------------------------------- the remote repository
\* What the GitHub contents API serves: a directory listing is a sequence of
\* items.  path is stem \o ext, so item.path.endsWith(e) is ext = e.  fails
\* says that the request for the item is answered with an error: the read of
\* download_url for a file, the listing call for a directory.  pageSize is
\* the most entries the remote puts in one response for the directory.
\* const perPage = 100 (worker); per_page=100 in rootUrl
PerPage == 100

File(stem, ext, content, fails) ==
  [type |-> "file", path |-> stem \o ext, ext |-> ext, download_url |-> TRUE,
   content |-> content, entries |-> <<>>, fails |-> fails]
Dir(path, entries, fails) ==
  [type |-> "dir", path |-> path, ext |-> "", download_url |-> FALSE,
   content |-> EmptyStr, entries |-> entries, fails |-> fails,
   pageSize |-> PerPage]
\* The same directory on a remote that serves it n entries at a time.
Paged(dir, n) == [dir EXCEPT !.pageSize = n]

Min(a, b) == IF a <= b THEN a ELSE b
\* response.data of a listing request for page `page` with per_page = perPage
Page(dir, perPage, page) ==
  LET size == Min(perPage, dir.pageSize)
      first == (page - 1) * size + 1
      last == Min(page * size, Len(dir.entries))
  IN SubSeq(dir.entries, first, last)

\* extensions = ['.js', '.py', '.ts', '.md']
Extensions == { ".js", ".py", ".ts", ".md" }
\* if (fileContent.length > 500000) ... continue
MaxFileChars == 500000

\* item.type === 'file' && item.download_url && extensions.some(ext => item.path.endsWith(ext))
Accepted(item) ==
  item.type = "file" /\ item.download_url /\ item.ext \in Extensions

\* `\n=== File: ${item.path} ===\n${fileContent}`
FileText(item) ==
  <<NL, Run("=== File: " \o item.path \o " ===", 1), NL>> \o item.content

\* ------------------------------------- part_002: the tokenizer and its fallback
\* tiktoken.encode(text).length of the external tokenizer, abstracted as one
\* token per repetition of a run (any fixed total function would do).
RECURSIVE EncodeLen(_)
EncodeLen(s) == IF s = <<>> THEN 0 ELSE s[1].k + EncodeLen(Tail(s))

\* tiktoken.encode(text).length for the module-level tiktoken tk: "throws" is
\* a tokenizer whose encode throws, "encoder" one that works.
Encode(text, tk) ==
  IF tk = "throws" THEN [threw |-> TRUE, length |-> 0]
  ELSE [threw |-> FALSE, length |-> EncodeLen(text)]

\* variant: no try/catch around encode; -1 stands for the exception that
\* then leaves countTokens
countTokensTk_nocatch(text, tk) ==
  IF tk = "undefined" THEN CeilDiv4(StrLen(text))
  ELSE IF Encode(text, tk).threw THEN -1 ELSE Encode(text, tk).length
\* countTokens of part_002.  tk is "undefined" when the constructor on line 23
\* threw: if (tiktoken) is then false.  An exception of encode is caught and
\* the function goes on to the fallback, Math.ceil(text.length / 4).
countTokensTk(text, tk) ==
  IF tk # "undefined" /\ ~Encode(text, tk).threw
  THEN Encode(text, tk).length
  ELSE CeilDiv4(StrLen(text))

\* if (countTokens(currentChunk + fileText) > 25000)
FusedBudget == 25000

\* ------------------------- part_002: fetchAllRepoContents, chunking as it fetches
\* The if/else that both the file branch and the dirChunk loop execute.
FusedAdd(st, text, tk) ==
  IF countTokensTk(st.currentChunk \o text, tk) > FusedBudget
  THEN [st EXCEPT !.chunks = Append(st.chunks, st.currentChunk),
                  !.currentChunk = text]
  ELSE [st EXCEPT !.currentChunk = st.currentChunk \o text]

RECURSIVE FusedAddAll(_, _, _)
\* for (const dirChunk of dirChunks) { ... }
FusedAddAll(st, dirChunks, tk) ==
  IF dirChunks = <<>> THEN st
  ELSE FusedAddAll(FusedAdd(st, Head(dirChunks), tk), Tail(dirChunks), tk)

RECURSIVE FusedItems(_, _, _)
RECURSIVE FusedFetch(_, _)
\* for (const item of response.data) { ... }; a rejected await leaves the
\* loop with ok = FALSE (the exception propagates, nothing catches it).
FusedItems(st, items, tk) ==
  IF items = <<>> THEN st
  ELSE LET item == Head(items)
       IN IF Accepted(item)
          THEN IF item.fails THEN [st EXCEPT !.ok = FALSE]
               ELSE IF StrLen(item.content) > MaxFileChars
                    THEN FusedItems(st, Tail(items), tk)
                    ELSE FusedItems(FusedAdd(st, FileText(item), tk), Tail(items), tk)
          ELSE IF item.type = "dir"
               THEN LET sub == FusedFetch(item, tk)
                    IN IF ~sub.ok THEN [st EXCEPT !.ok = FALSE]
                       ELSE FusedItems(FusedAddAll(st, sub.chunks, tk), Tail(items), tk)
               ELSE FusedItems(st, Tail(items), tk)

\* fetchAllRepoContents(owner, repo, path, token) of part_002 on directory dir:
\* one listing request without a page parameter, so response.data is the
\* first page as the remote cuts it;
\* [ok |-> TRUE, chunks |-> the returned array] or [ok |-> FALSE] when it throws.
FusedFetch(dir, tk) ==
  IF dir.fails THEN [ok |-> FALSE, chunks |-> <<>>]
  ELSE LET st == FusedItems([ok |-> TRUE, chunks |-> <<>>, currentChunk |-> EmptyStr],
                            Page(dir, dir.pageSize, 1), tk)
       IN IF ~st.ok THEN [ok |-> FALSE, chunks |-> <<>>]
          ELSE [ok |-> TRUE,
                chunks |-> IF Truthy(st.currentChunk)
                           THEN Append(st.chunks, st.currentChunk)
                           ELSE st.chunks]

\* ------------------------------- server.js: the worker's fetchDirContents
RECURSIVE DirItems(_, _)
\* for (const item of items) { ... contents.push(...) }: the contents array
\* after the loop, or ok = FALSE when an await rejects.  A directory item
\* matches no branch: the worker does not descend.
DirItems(st, items) ==
  IF items = <<>> THEN st
  ELSE LET item == Head(items)
       IN IF Accepted(item)
          THEN IF item.fails THEN [st EXCEPT !.ok = FALSE]
               ELSE IF StrLen(item.content) > MaxFileChars
                    THEN DirItems(st, Tail(items))
                    ELSE DirItems([st EXCEPT !.contents = Append(@, FileText(item))],
                                  Tail(items))
          ELSE DirItems(st, Tail(items))

RECURSIVE DirPages(_, _, _)
\* while (true) { items = page `page` of the listing; if (!items ||
\* items.length === 0) break; for (...) {...}; page++ }
DirPages(st, dir, page) ==
  LET items == Page(dir, PerPage, page)
  IN IF items = <<>> THEN st
     ELSE LET after == DirItems(st, items)
          IN IF after.ok THEN DirPages(after, dir, page + 1) ELSE after

\* What fetchDirContents hands to parentPort.postMessage when it runs to its
\* end: contents.join('\n'), or { error: err.message } from the .catch.
fetchDirContents(dir) ==
  IF dir.fails THEN [type |-> "message", isString |-> FALSE, data |-> EmptyStr]
  ELSE LET st == DirPages([ok |-> TRUE, contents |-> <<>>], dir, 1)
       IN IF st.ok
          THEN [type |-> "message", isString |-> TRUE, data |-> Join(st.contents, <<NL>>)]
          ELSE [type |-> "message", isString |-> FALSE, data |-> EmptyStr]

\* The events a Worker object delivers to the main thread.
ErrorEvent == [type |-> "error", isString |-> FALSE, data |-> EmptyStr]
ExitEvent == [type |-> "exit", isString |-> FALSE, data |-> EmptyStr]

\* The worker branch of the module, lines 27-61, run in a worker thread:
\* fetchDirContents() is called and returns its promise at the first await
\* (line 37), .catch is attached, and process.exit() on line 60 stops the
\* thread at once.  The pending request never completes, so line 56 and the
\* .catch callback never run: the thread delivers 'exit' and nothing else.
WorkerScript(dir) == <<ExitEvent>>

RECURSIVE Messages(_)
\* The 'message' events among the events of a thread: its postMessage calls.
Messages(evs) ==
  IF evs = <<>> THEN <<>>
  ELSE IF Head(evs).type = "message"
       THEN <<Head(evs)>> \o Messages(Tail(evs))
       ELSE Messages(Tail(evs))

\* directories = rootItems.filter(item => item.type === 'dir')
RECURSIVE FilterDirs(_)
FilterDirs(items) ==
  IF items = <<>> THEN <<>>
  ELSE IF Head(items).type = "dir"
       THEN <<Head(items)>> \o FilterDirs(Tail(items))
       ELSE FilterDirs(Tail(items))

\* ------------------------------------------------- callOpenAIWithRetry
\* callOpenAIWithRetry(prompt, retries = 3, delay = 1000)
DefaultRetries == 3
DefaultDelay == 1000

\* What openai.chat.completions.create may answer.  An error is a record of
\* the two things the catch block reads: error.response and its status.
Err429 == [ok |-> FALSE, message |-> "rate limited", hasResponse |-> TRUE, status |-> 429]
Err500 == [ok |-> FALSE, message |-> "server error", hasResponse |-> TRUE, status |-> 500]
ErrNet == [ok |-> FALSE, message |-> "socket hang up", hasResponse |-> FALSE, status |-> 0]
ServiceErrors == { Err429, Err500, ErrNet }
\* throw new Error('Max retries reached for OpenAI API call')
MaxRetriesError ==
  [ok |-> FALSE, message |-> "Max retries reached for OpenAI API call",
   hasResponse |-> FALSE, status |-> 0]
\* The response of a successful call: choices[0].message.content is a
\* function of the prompt.
Completion(p) == [ok |-> TRUE, content |-> p]

\* `Generate Sphinx-compatible RST for this source code chunk (part
\* ${i + 1}/${sourceCodeChunks.length}):\n\n${chunk}`
Prompt(k, chunkList) ==
  [part |-> k + 1, total |-> Len(chunkList), chunk |-> chunkList[k + 1]]

\* gptResponse.choices[0].message.content: one run of text that stands for
\* the service's answer to prompt p.
Content(resp) == <<[c |-> "rst", k |-> 1, of |-> resp.content]>>

\* rstParts.join('\n\n.. raw:: html\n\n   <hr>\n\n')
Separator ==
  <<NL, NL, Run(".. raw:: html", 1), NL, NL, Run("   <hr>", 1), NL, NL>>

\* variant: unshift instead of push
PushPart_front(parts, c) == <<c>> \o parts
\* rstParts.push(...)
PushPart(parts, c) == Append(parts, c)

RECURSIVE Pow2(_)
\* Math.pow(2, n)
Pow2(n) == IF n = 0 THEN 1 ELSE 2 * Pow2(n - 1)

\* variant: any error that carries a response counts as rate-limited
IsRateLimit_any(error) == error.hasResponse
\* error.response && error.response.status === 429
IsRateLimit(error) == error.hasResponse /\ error.status = 429

\* variant: linear instead of exponential backoff
WaitTime_linear(d, a) == d * (a + 1)
\* const waitTime = delay * Math.pow(2, attempt)
WaitTime(d, a) == d * Pow2(a)

\* variant: the loop variable advances by two
NextAttempt_skip(a) == a + 2
\* for (...; ...; attempt++)
NextAttempt(a) == a + 1

\* variant: one attempt too many
LoopCond_inclusive(a, r) == a <= r
\* for (...; attempt < retries; ...)
LoopCond(a, r) == a < r

\* ------------------------------------------------------------ variables
VARIABLES
  \* chunkSourceCode called on its own
  sourceCode,        \* the text handed to chunkSourceCode
  maxTokens,         \* its budget
  sourceCodeChunks,  \* what it returned
  chunkUnits,        \* lines per returned chunk (bookkeeping)
  estimate,          \* what the two countTokens returned for sourceCode
  cpc,               \* "idle", "input" before the call, "done" after
  \* fetchAllRepoContents of part_002 called on its own
  repo,              \* the remote repository: its root directory
  tiktoken,          \* the module-level tokenizer of part_002
  fusedResult,       \* what the call returned, or that it threw
  fusedPc,           \* "idle", "input", "done"
  \* fetchAllRepoContents of server.js
  file,              \* generated_docs/source_code.txt on disk
  stream,            \* writeStream: ended, finished, a 'finish' listener, counters
  rootItems,         \* rootResponse.data
  itemIdx,           \* position of the for-loop over rootItems
  directories,       \* the root-level directories, one worker each
  workerCount, completedWorkers,
  threads,           \* per worker: "running" or "stopped"
  events,            \* per worker: events not yet handled by the main thread
  promises,          \* per worker: "pending", "resolved", "rejected"
  crashed,           \* workers whose thread threw (history)
  posted,            \* per worker: what it handed to postMessage (history)
  log,               \* console.warn / console.error lines
  fetchPc,           \* "idle", "called", "listRoot", "rootLoop", "awaitAll",
                     \* "awaitFinish", "returned", "thrown"
  \* callOpenAIWithRetry
  prompt,            \* its argument
  retries, delay,    \* its parameters
  attempt,           \* the loop variable
  replies,           \* what the service answered so far (history)
  waits,             \* the waitTime of every setTimeout so far (history)
  outcome,           \* the response returned or the error thrown
  rpc,               \* "idle", "loop", "wait", "returned", "thrown"
  \* the /generate-docs handler of server.js
  repoUrl,           \* req.body.repoUrl
  iChunk,            \* i, the loop variable over sourceCodeChunks
  rstParts,
  inFlight,          \* chunk indices whose generation call has not ended
  callLog,           \* starts and ends of the generation calls (history)
  rstFile,           \* the docs_<time>.rst written, or NotWritten
  response,          \* what res.json / res.status().json sent
  hpc,               \* "idle", "start", "fetching", "chunk", "generating",
                     \* "awaitGen", "build", "done"
  \* two /generate-docs requests served by the one process
  requests           \* per request: its repository, the position of its
                     \* handler, rootItems, the loop index, the position of
                     \* its writeStream in the file, what it wrote (history)
                     \* and the sourceCode it read back

chunkVars == <<sourceCode, maxTokens, sourceCodeChunks, chunkUnits, estimate, cpc>>
fusedVars == <<repo, tiktoken, fusedResult, fusedPc>>
fetchVars == <<file, stream, rootItems, itemIdx, directories, workerCount,
               completedWorkers, threads, events, promises, crashed, posted, log,
               fetchPc>>
retryVars == <<prompt, retries, delay, attempt, replies, waits, outcome, rpc>>
handlerVars == <<repoUrl, iChunk, rstParts, inFlight, callLog, rstFile, response, hpc>>
vars == <<chunkVars, fusedVars, fetchVars, retryVars, handlerVars, requests>>
\* what the actions of one part leave alone (repo is read by both fetches)
notChunk == <<fusedVars, fetchVars, retryVars, handlerVars, requests>>
notFused == <<chunkVars, fetchVars, retryVars, handlerVars, requests>>
notFetch == <<chunkVars, fusedVars, retryVars, handlerVars, requests>>
notRetry == <<chunkVars, fusedVars, fetchVars, handlerVars, requests>>

NoValue == [ok |-> FALSE, message |-> "none", hasResponse |-> FALSE, status |-> 0]

NoEstimate == [server |-> 0, fused |-> 0]
ChunkIdle ==
  /\ sourceCode = EmptyStr /\ maxTokens = DefaultMaxTokens
  /\ sourceCodeChunks = <<>> /\ chunkUnits = <<>> /\ estimate = NoEstimate
  /\ cpc = "idle"
FusedIdle ==
  /\ repo = Dir("", <<>>, FALSE) /\ tiktoken = "undefined"
  /\ fusedResult = [ok |-> TRUE, chunks |-> <<>>] /\ fusedPc = "idle"
\* endCalls and lateWrites count the calls of end() and the calls of write()
\* made after end() (bookkeeping of the model).
NewStream ==
  [ended |-> FALSE, finished |-> FALSE, listening |-> FALSE,
   endCalls |-> 0, lateWrites |-> 0]
\* writeStream.end()
End(st) == [st EXCEPT !.ended = TRUE, !.endCalls = @ + 1]
\* writeStream.write(...), seen from the stream's state
Write(st) == [st EXCEPT !.lateWrites = IF st.ended THEN @ + 1 ELSE @]
FetchIdle ==
  /\ file = EmptyStr /\ stream = NewStream
  /\ rootItems = <<>> /\ itemIdx = 1 /\ directories = <<>>
  /\ workerCount = 0 /\ completedWorkers = 0
  /\ threads = <<>> /\ events = <<>> /\ promises = <<>>
  /\ crashed = {} /\ posted = <<>> /\ log = <<>> /\ fetchPc = "idle"
NoPrompt == [part |-> 0, total |-> 0, chunk |-> EmptyStr]
NoResponse == [status |-> 0, body |-> "none"]
NotWritten == <<Run("(no file)", 0)>>
HandlerIdle ==
  /\ repoUrl = "" /\ iChunk = 0 /\ rstParts = <<>> /\ inFlight = {} /\ callLog = <<>>
  /\ rstFile = NotWritten /\ response = NoResponse /\ hpc = "idle"
RequestsIdle == requests = <<>>
RetryIdle ==
  /\ prompt = NoPrompt /\ retries = DefaultRetries /\ delay = DefaultDelay
  /\ attempt = 0 /\ replies = <<>> /\ waits = <<>>
  /\ outcome = NoValue /\ rpc = "idle"

\* ================================================= chunkSourceCode alone
LineSet ==
  { EmptyStr, <<Run("a", 1)>>, <<Run("b", 4)>>, <<Run("c", 4)>>,
    <<Run("x", 20000)>>, <<Run("y", 40004)>> }

RECURSIVE SeqsUpTo(_, _)
SeqsUpTo(S, n) ==
  IF n = 0 THEN { <<>> }
  ELSE LET shorter == SeqsUpTo(S, n - 1)
       IN shorter \cup { Append(q, x) : q \in shorter, x \in S }

RECURSIVE RootText(_)
\* What the loop over a listing writes when no read fails: the header+content
\* blocks of the accepted, not oversized files, one after the other.
RootText(items) ==
  IF items = <<>> THEN EmptyStr
  ELSE (IF Accepted(Head(items)) /\ StrLen(Head(items).content) <= MaxFileChars
        THEN FileText(Head(items)) ELSE EmptyStr) \o RootText(Tail(items))

\* Small files: with its header, p.py and q.js make 32 characters (8 tokens)
\* each, n.md with no content 20 characters (5 tokens).
FileP == File("p", ".py", <<Run("p", 12)>>, FALSE)
FileQ == File("q", ".js", <<Run("q", 12)>>, FALSE)
FileN == File("n", ".md", EmptyStr, FALSE)
SmallFiles == { FileP, FileQ, FileN }
\* Corpora as fetchAllRepoContents writes them: the blocks of two files.
CorpusTexts ==
  { RootText(q) : q \in { r \in SmallFiles \X SmallFiles : r[1] # r[2] } }

SourceTexts ==
  { Join(ls, <<NL>>) : ls \in SeqsUpTo(LineSet, MaxLines) } \cup CorpusTexts
MaxTokensSet == { 1, 2, 10, 13, DefaultMaxTokens }

InitChunk ==
  /\ sourceCode \in SourceTexts
  /\ maxTokens \in MaxTokensSet
  /\ sourceCodeChunks = <<>>
  /\ chunkUnits = <<>>
  /\ estimate = NoEstimate
  /\ cpc = "input"
  /\ FusedIdle /\ FetchIdle /\ RetryIdle /\ HandlerIdle /\ RequestsIdle

CallChunkSourceCode ==
  /\ cpc = "input"
  /\ sourceCodeChunks' = chunkSourceCode(sourceCode, maxTokens)
  /\ chunkUnits' = ChunkRun(sourceCode, maxTokens).units
  /\ cpc' = "done"
  /\ UNCHANGED <<sourceCode, maxTokens, estimate, notChunk>>

\* The two estimators called on a text of their own.
InitCount ==
  /\ sourceCode \in SourceTexts
  /\ tiktoken \in { "undefined", "throws", "encoder" }
  /\ maxTokens = DefaultMaxTokens
  /\ sourceCodeChunks = <<>> /\ chunkUnits = <<>>
  /\ estimate = NoEstimate
  /\ cpc = "measure"
  /\ repo = Dir("", <<>>, FALSE)
  /\ fusedResult = [ok |-> TRUE, chunks |-> <<>>] /\ fusedPc = "idle"
  /\ FetchIdle /\ RetryIdle /\ HandlerIdle /\ RequestsIdle

CallCountTokens ==
  /\ cpc = "measure"
  /\ estimate' = [server |-> countTokens(sourceCode),
                  fused |-> countTokensTk(sourceCode, tiktoken)]
  /\ cpc' = "measured"
  /\ UNCHANGED <<sourceCode, maxTokens, sourceCodeChunks, chunkUnits, notChunk>>


\* ------------------------------------------------- remote repositories
ItemA == File("a", ".py", <<Run("p", 50)>>, FALSE)
ItemB == File("b", ".txt", <<Run("t", 10)>>, FALSE)
\* over the 500,000-character ceiling
ItemHuge == File("huge", ".js", <<Run("h", 600000)>>, FALSE)
\* two lines of 7,500 tokens each
ItemLong == File("long", ".ts", <<Run("l", 30000), NL, Run("m", 30000)>>, FALSE)
\* one line of 25,001 tokens
ItemWide == File("wide", ".md", <<Run("w", 100004)>>, FALSE)
\* exactly at the ceiling
ItemEdge == File("edge", ".py", <<Run("e", 500000)>>, FALSE)
\* 15,000 tokens
ItemTall == File("tall", ".js", <<Run("t", 60000)>>, FALSE)
\* a file whose download fails
ItemBad == File("bad", ".js", EmptyStr, TRUE)
DirLib == Dir("lib", <<File("lib/c", ".js", <<Run("c", 80)>>, FALSE)>>, FALSE)
DirPkg ==
  Dir("pkg", <<File("pkg/d", ".py", <<Run("d", 8), NL, Run("e", 8)>>, FALSE),
               Dir("pkg/in", <<File("pkg/in/f", ".js", <<Run("f", 5)>>, FALSE)>>, FALSE)>>,
      FALSE)
\* a directory whose listing fails
DirDown == Dir("down", <<>>, TRUE)
\* a directory holding a file whose download fails
DirRot == Dir("rot", <<File("rot/g", ".js", EmptyStr, TRUE)>>, FALSE)
\* a directory with a file at the ceiling and one over it
DirBig ==
  Dir("big", <<File("big/edge", ".ts", <<Run("e", 500000)>>, FALSE),
               File("big/huge", ".md", <<Run("h", 500001)>>, FALSE)>>, FALSE)

RootItemPool ==
  { ItemA, ItemB, ItemHuge, ItemLong, ItemWide, ItemBad,
    DirLib, DirPkg, DirDown, DirRot }

NoRepeat(q) == \A i, j \in 1..Len(q) : i # j => q[i] # q[j]

\* Some larger repositories: root files a.py and b.txt beside lib/; files at
\* and over the ceiling in the root and in a directory; two files that fit a
\* chunk of part_002 each but not together; a root file before two directories.
LargerRepos ==
  { Dir("", <<ItemA, ItemB, DirLib>>, FALSE),
    Dir("", <<ItemA, DirLib, DirPkg>>, FALSE),
    Dir("", <<ItemEdge, ItemHuge, DirBig>>, FALSE),
    Dir("", <<ItemLong, ItemTall>>, FALSE) }

\* Repositories on a remote that serves listings one entry at a time: the
\* root in two pages, then in three with a two-page directory.
DirTwo ==
  Paged(Dir("two", <<File("two/r", ".py", <<Run("r", 6)>>, FALSE),
                     File("two/s", ".js", <<Run("s", 6)>>, FALSE)>>, FALSE), 1)
PagedRepos ==
  { Paged(Dir("", <<ItemA, FileQ>>, FALSE), 1),
    Paged(Dir("", <<FileP, DirTwo, FileQ>>, FALSE), 1) }

\* Root listings of at most MaxRootItems distinct items, one repository
\* whose root listing call fails, the larger ones and the paged ones.
Repos ==
  { Dir("", q, FALSE) : q \in { r \in SeqsUpTo(RootItemPool, MaxRootItems) : NoRepeat(r) } }
    \cup { Dir("", <<>>, TRUE) } \cup LargerRepos \cup PagedRepos

\* ================================ fetchAllRepoContents of part_002 alone
InitFused ==
  /\ repo \in Repos
  /\ tiktoken \in { "undefined", "throws", "encoder" }
  /\ fusedResult = [ok |-> TRUE, chunks |-> <<>>]
  /\ fusedPc = "input"
  /\ ChunkIdle /\ FetchIdle /\ RetryIdle /\ HandlerIdle /\ RequestsIdle

CallFusedFetch ==
  /\ fusedPc = "input"
  /\ fusedResult' = FusedFetch(repo, tiktoken)
  /\ fusedPc' = "done"
  /\ UNCHANGED <<repo, tiktoken, notFused>>

\* Either chunker, or the estimators, called once on an input of their own.
NextChunk == CallChunkSourceCode \/ CallFusedFetch \/ CallCountTokens
SpecChunk == (InitChunk \/ InitFused \/ InitCount) /\ [][NextChunk]_vars

\* ======================================= fetchAllRepoContents (server.js)
\* const writeStream = createWriteStream(outputFile, { flags: 'w' }):
\* the file is truncated; then the root listing is requested.
CreateWriteStream ==
  /\ fetchPc = "called"
  /\ file' = EmptyStr
  /\ stream' = NewStream
  /\ rootItems' = <<>> /\ itemIdx' = 1 /\ directories' = <<>>
  /\ workerCount' = 0 /\ completedWorkers' = 0
  /\ threads' = <<>> /\ events' = <<>> /\ promises' = <<>>
  /\ fetchPc' = "listRoot"
  /\ UNCHANGED <<crashed, posted, log, notFetch>>

\* const rootResponse = await axios.get(rootUrl, ...): page 1 (per_page=100)
\* of the root listing and no other page, or the call rejects and the
\* function throws.
ListRoot ==
  /\ fetchPc = "listRoot"
  /\ IF repo.fails
     THEN /\ fetchPc' = "thrown"
          /\ UNCHANGED rootItems
     ELSE /\ rootItems' = Page(repo, PerPage, 1)
          /\ fetchPc' = "rootLoop"
  /\ UNCHANGED <<file, stream, itemIdx, directories, workerCount, completedWorkers,
                 threads, events, promises, crashed, posted, log, notFetch>>

\* one iteration of: for (const item of rootItems) { ... }.  What is written
\* to the stream reaches the file in the order of the write calls.
RootItem ==
  /\ fetchPc = "rootLoop" /\ itemIdx <= Len(rootItems)
  /\ LET item == rootItems[itemIdx]
     IN IF Accepted(item)
        THEN IF item.fails
             THEN \* await axios.get(item.download_url) rejects
                  /\ fetchPc' = "thrown"
                  /\ UNCHANGED <<file, stream, log, itemIdx>>
             ELSE IF StrLen(item.content) > MaxFileChars
                  THEN /\ log' = Append(log, [level |-> "warn", path |-> item.path])
                       /\ itemIdx' = itemIdx + 1
                       /\ UNCHANGED <<file, stream, fetchPc>>
                  ELSE /\ file' = file \o FileText(item)
                       /\ stream' = Write(stream)
                       /\ itemIdx' = itemIdx + 1
                       /\ UNCHANGED <<log, fetchPc>>
        ELSE /\ itemIdx' = itemIdx + 1
             /\ UNCHANGED <<file, stream, log, fetchPc>>
  /\ UNCHANGED <<rootItems, directories, workerCount, completedWorkers,
                 threads, events, promises, crashed, posted, notFetch>>

\* if (workerCount === 0) { writeStream.end(); await new Promise(resolve =>
\*   writeStream.on('finish', resolve)); return; }
NoDirectories ==
  /\ fetchPc = "rootLoop" /\ itemIdx > Len(rootItems)
  /\ FilterDirs(rootItems) = <<>>
  /\ directories' = <<>> /\ workerCount' = 0
  /\ stream' = [End(stream) EXCEPT !.listening = TRUE]
  /\ fetchPc' = "awaitFinish"
  /\ UNCHANGED <<file, rootItems, itemIdx, completedWorkers, threads, events,
                 promises, crashed, posted, log, notFetch>>

\* const workers = directories.map(dir => new Promise(... new Worker ...));
\* await Promise.all(workers)
SpawnWorkers ==
  /\ fetchPc = "rootLoop" /\ itemIdx > Len(rootItems)
  /\ FilterDirs(rootItems) # <<>>
  /\ directories' = FilterDirs(rootItems)
  /\ workerCount' = Len(directories')
  /\ threads' = [w \in 1..workerCount' |-> "running"]
  /\ events' = [w \in 1..workerCount' |-> <<>>]
  /\ promises' = [w \in 1..workerCount' |-> "pending"]
  /\ posted' = [w \in 1..workerCount' |-> <<>>]
  /\ fetchPc' = "awaitAll"
  /\ UNCHANGED <<file, stream, rootItems, itemIdx, completedWorkers, crashed, log,
                 notFetch>>

\* A worker thread runs the module to its end.
WorkerRuns ==
  \E w \in 1..workerCount :
    /\ threads[w] = "running"
    /\ threads' = [threads EXCEPT ![w] = "stopped"]
    /\ events' = [events EXCEPT ![w] = WorkerScript(directories[w])]
    /\ posted' = [posted EXCEPT ![w] = Messages(WorkerScript(directories[w]))]
    /\ UNCHANGED <<file, stream, rootItems, itemIdx, directories, workerCount,
                   completedWorkers, promises, crashed, log, fetchPc, notFetch>>

\* A worker thread ends with an uncaught exception (it cannot be started,
\* runs out of memory, throws while loading the module): 'error', then 'exit'.
WorkerCrashes ==
  \E w \in 1..workerCount :
    /\ threads[w] = "running"
    /\ threads' = [threads EXCEPT ![w] = "stopped"]
    /\ events' = [events EXCEPT ![w] = <<ErrorEvent, ExitEvent>>]
    /\ crashed' = crashed \cup {w}
    /\ UNCHANGED <<file, stream, rootItems, itemIdx, directories, workerCount,
                   completedWorkers, promises, posted, log, fetchPc, notFetch>>

\* worker.on('message', data => { if (typeof data === 'string')
\*   writeStream.write(data); else if (data.error) console.error(...) })
OnMessage(w, ev) ==
  /\ IF ev.isString
     THEN file' = file \o ev.data /\ stream' = Write(stream) /\ UNCHANGED log
     ELSE log' = Append(log, [level |-> "error", path |-> directories[w].path])
                 /\ UNCHANGED <<file, stream>>
  /\ UNCHANGED <<completedWorkers, promises, fetchPc>>

\* worker.on('error', reject): the promise of w rejects, Promise.all rejects
\* and the awaiting function throws.
OnError(w) ==
  /\ promises' = [promises EXCEPT ![w] = IF @ = "pending" THEN "rejected" ELSE @]
  /\ fetchPc' = IF fetchPc = "awaitAll" THEN "thrown" ELSE fetchPc
  /\ UNCHANGED <<file, log, stream, completedWorkers>>

\* variant: the exit is counted twice
CountDone_twice(n) == n + 2
\* completedWorkers++
CountDone(n) == n + 1

\* variant: the stream is ended by the first worker that exits
EndNow_first(done, count) == done >= 1
\* if (completedWorkers === workerCount)
EndNow(done, count) == done = count

\* worker.on('exit', () => { completedWorkers++; if (completedWorkers ===
\*   workerCount) writeStream.end(); resolve(); })
OnExit(w) ==
  /\ completedWorkers' = CountDone(completedWorkers)
  /\ stream' = IF EndNow(completedWorkers', workerCount)
               THEN End(stream) ELSE stream
  /\ promises' = [promises EXCEPT ![w] = IF @ = "pending" THEN "resolved" ELSE @]
  /\ UNCHANGED <<file, log, fetchPc>>

\* The main thread handles the next event of a worker.
WorkerEvent ==
  \E w \in 1..workerCount :
    /\ events[w] # <<>>
    /\ events' = [events EXCEPT ![w] = Tail(@)]
    /\ LET ev == Head(events[w])
       IN CASE ev.type = "message" -> OnMessage(w, ev)
            [] ev.type = "error" -> OnError(w)
            [] ev.type = "exit" -> OnExit(w)
    /\ UNCHANGED <<rootItems, itemIdx, directories, workerCount, threads, crashed,
                   posted, notFetch>>

\* Promise.all(workers) resolves; the function goes on to
\* await new Promise(resolve => writeStream.on('finish', resolve))
AllWorkersDone ==
  /\ fetchPc = "awaitAll"
  /\ \A w \in 1..workerCount : promises[w] = "resolved"
  /\ stream' = [stream EXCEPT !.listening = TRUE]
  /\ fetchPc' = "awaitFinish"
  /\ UNCHANGED <<file, rootItems, itemIdx, directories, workerCount, completedWorkers,
                 threads, events, promises, crashed, posted, log, notFetch>>

\* The stream, ended and flushed, emits 'finish' once.  A listener that is
\* registered by then resolves the awaited promise and the function returns;
\* an event emitted with no listener is lost.
StreamFinish ==
  /\ stream.ended /\ ~stream.finished
  /\ stream' = [stream EXCEPT !.finished = TRUE]
  /\ fetchPc' = IF stream.listening /\ fetchPc = "awaitFinish"
                THEN "returned" ELSE fetchPc
  /\ UNCHANGED <<file, rootItems, itemIdx, directories, workerCount, completedWorkers,
                 threads, events, promises, crashed, posted, log, notFetch>>

InitFetch ==
  /\ repo \in Repos
  /\ tiktoken = "undefined" /\ fusedResult = [ok |-> TRUE, chunks |-> <<>>]
  /\ fusedPc = "idle"
  /\ file \in { EmptyStr, <<Run("left by an earlier request", 1)>> }
  /\ stream = NewStream
  /\ rootItems = <<>> /\ itemIdx = 1 /\ directories = <<>>
  /\ workerCount = 0 /\ completedWorkers = 0
  /\ threads = <<>> /\ events = <<>> /\ promises = <<>>
  /\ crashed = {} /\ posted = <<>> /\ log = <<>> /\ fetchPc = "called"
  /\ ChunkIdle /\ RetryIdle /\ HandlerIdle /\ RequestsIdle

NextFetch ==
  \/ CreateWriteStream \/ ListRoot \/ RootItem \/ NoDirectories \/ SpawnWorkers
  \/ WorkerRuns \/ WorkerCrashes \/ WorkerEvent \/ AllWorkersDone \/ StreamFinish
SpecFetch == InitFetch /\ [][NextFetch]_vars

\* ================================== app.post('/generate-docs') (server.js)
\* What else the try block may throw: the rejection of fetchAllRepoContents
\* and the error exec hands to reject.
FetchError == [ok |-> FALSE, message |-> "fetch failed", hasResponse |-> FALSE, status |-> 0]
BuildError == [ok |-> FALSE, message |-> "sphinx-build failed", hasResponse |-> FALSE, status |-> 0]

\* catch (error) { console.error('Error:', error.message);
\*   res.status(500).json({ error: 'Failed to generate documentation' }) }
CatchResponse(error) == [status |-> 500, body |-> "Failed to generate documentation"]

\* variant: a try/catch inside the for-loop that skips the chunk and goes on
CatchError_skip(error, i) ==
  [response |-> [status |-> 0, body |-> "none"], i |-> i + 1, hpc |-> "generating"]
\* A throw of callOpenAIWithRetry on line 205 leaves the for-loop for the one
\* catch block of the handler: the response is sent, i stays, the handler ends.
CatchError(error, i) ==
  [response |-> CatchResponse(error), i |-> i, hpc |-> "done"]

\* if (!repoUrl) return 400; if (!match) return 400
RejectRequest ==
  /\ hpc = "start"
  /\ repoUrl \in { "", "not a repository" }
  /\ response' = [status |-> 400,
                  body |-> IF repoUrl = "" THEN "Repository URL is required"
                           ELSE "Invalid GitHub URL"]
  /\ hpc' = "done"
  /\ UNCHANGED <<repoUrl, iChunk, rstParts, inFlight, callLog, rstFile,
                 chunkVars, fusedVars, requests, fetchVars, retryVars>>

\* await fetchAllRepoContents(repoOwner, repoName, token, sourceFilePath)
StartFetch ==
  /\ hpc = "start"
  /\ repoUrl \notin { "", "not a repository" }
  /\ fetchPc' = "called"
  /\ hpc' = "fetching"
  /\ UNCHANGED <<file, stream, rootItems, itemIdx, directories, workerCount,
                 completedWorkers, threads, events, promises, crashed, posted, log,
                 repoUrl, iChunk, rstParts, inFlight, callLog, rstFile, response,
                 chunkVars, fusedVars, requests, retryVars>>

\* catch (error) { res.status(500).json({ error: 'Failed to generate
\* documentation' }) }, entered from the fetch
FetchThrew ==
  /\ hpc = "fetching" /\ fetchPc = "thrown"
  /\ response' = CatchResponse(FetchError)
  /\ hpc' = "done"
  /\ UNCHANGED <<repoUrl, iChunk, rstParts, inFlight, callLog, rstFile,
                 chunkVars, fusedVars, requests, fetchVars, retryVars>>

\* const sourceCode = await fs.readFile(sourceFilePath, 'utf8')
ReadFile ==
  /\ hpc = "fetching" /\ fetchPc = "returned"
  /\ sourceCode' = file
  /\ hpc' = "chunk"
  /\ UNCHANGED <<maxTokens, sourceCodeChunks, chunkUnits, estimate, cpc,
                 repoUrl, iChunk, rstParts, inFlight, callLog, rstFile, response,
                 fusedVars, requests, fetchVars, retryVars>>

\* if (!sourceCode) return res.status(400).json({ error: 'No relevant ...' })
NoSourceFound ==
  /\ hpc = "chunk" /\ ~Truthy(sourceCode)
  /\ response' = [status |-> 400, body |-> "No relevant source code found"]
  /\ hpc' = "done"
  /\ UNCHANGED <<repoUrl, iChunk, rstParts, inFlight, callLog, rstFile,
                 chunkVars, fusedVars, requests, fetchVars, retryVars>>

\* const sourceCodeChunks = chunkSourceCode(sourceCode); const rstParts = []
ChunkSource ==
  /\ hpc = "chunk" /\ Truthy(sourceCode)
  /\ sourceCodeChunks' = chunkSourceCode(sourceCode, DefaultMaxTokens)
  /\ chunkUnits' = ChunkRun(sourceCode, DefaultMaxTokens).units
  /\ iChunk' = 0
  /\ rstParts' = <<>>
  /\ hpc' = "generating"
  /\ UNCHANGED <<sourceCode, maxTokens, estimate, cpc, repoUrl, inFlight, callLog,
                 rstFile, response, fusedVars, requests, fetchVars, retryVars>>

\* const gptResponse = await callOpenAIWithRetry(prompt): the call starts
CallOpenAI ==
  /\ hpc = "generating" /\ iChunk < Len(sourceCodeChunks)
  /\ prompt' = Prompt(iChunk, sourceCodeChunks)
  /\ retries' = DefaultRetries /\ delay' = DefaultDelay
  /\ attempt' = 0 /\ replies' = <<>> /\ waits' = <<>>
  /\ outcome' = NoValue /\ rpc' = "loop"
  /\ inFlight' = inFlight \cup {iChunk}
  /\ callLog' = Append(callLog, [ev |-> "start", chunk |-> iChunk])
  /\ hpc' = "awaitGen"
  /\ UNCHANGED <<repoUrl, iChunk, rstParts, rstFile, response,
                 chunkVars, fusedVars, requests, fetchVars>>

\* rstParts.push(gptResponse.choices[0].message.content); i++
GotResponse ==
  /\ hpc = "awaitGen" /\ rpc = "returned"
  /\ rstParts' = PushPart(rstParts, Content(outcome))
  /\ inFlight' = inFlight \ {iChunk}
  /\ callLog' = Append(callLog, [ev |-> "end", chunk |-> iChunk])
  /\ iChunk' = iChunk + 1
  /\ rpc' = "idle"
  /\ hpc' = "generating"
  /\ UNCHANGED <<repoUrl, rstFile, response, prompt, retries, delay, attempt,
                 replies, waits, outcome, chunkVars, fusedVars, requests, fetchVars>>

\* the catch block, entered from callOpenAIWithRetry
GenerationThrew ==
  /\ hpc = "awaitGen" /\ rpc = "thrown"
  /\ inFlight' = inFlight \ {iChunk}
  /\ callLog' = Append(callLog, [ev |-> "end", chunk |-> iChunk])
  /\ LET after == CatchError(outcome, iChunk)
     IN /\ response' = after.response
        /\ iChunk' = after.i
        /\ hpc' = after.hpc
  /\ rpc' = "idle"
  /\ UNCHANGED <<repoUrl, rstParts, rstFile, prompt, retries, delay, attempt,
                 replies, waits, outcome, chunkVars, fusedVars, requests, fetchVars>>

\* const sphinxDocs = rstParts.join(...); await fs.writeFile(rstFilePath,
\* sphinxDocs) (with the directories, conf.py and index.rst)
WriteRst ==
  /\ hpc = "generating" /\ ~(iChunk < Len(sourceCodeChunks))
  /\ rstFile' = Join(rstParts, Separator)
  /\ hpc' = "build"
  /\ UNCHANGED <<repoUrl, iChunk, rstParts, inFlight, callLog, response,
                 chunkVars, fusedVars, requests, fetchVars, retryVars>>

\* sphinx-build succeeds; res.json({ downloadLink })
BuildSucceeds ==
  /\ hpc = "build"
  /\ response' = [status |-> 200, body |-> "downloadLink"]
  /\ hpc' = "done"
  /\ UNCHANGED <<repoUrl, iChunk, rstParts, inFlight, callLog, rstFile,
                 chunkVars, fusedVars, requests, fetchVars, retryVars>>

\* exec(sphinxCommand, ...) reports an error: reject(error), the catch block
BuildFails ==
  /\ hpc = "build"
  /\ response' = CatchResponse(BuildError)
  /\ hpc' = "done"
  /\ UNCHANGED <<repoUrl, iChunk, rstParts, inFlight, callLog, rstFile,
                 chunkVars, fusedVars, requests, fetchVars, retryVars>>

RepoUrls == { "", "not a repository", "https://github.com/owner/name" }

Init ==
  /\ repoUrl \in RepoUrls
  /\ repo \in Repos
  /\ file \in { EmptyStr, <<Run("left by an earlier request", 1)>> }
  /\ tiktoken = "undefined" /\ fusedResult = [ok |-> TRUE, chunks |-> <<>>]
  /\ fusedPc = "idle"
  /\ stream = NewStream
  /\ rootItems = <<>> /\ itemIdx = 1 /\ directories = <<>>
  /\ workerCount = 0 /\ completedWorkers = 0
  /\ threads = <<>> /\ events = <<>> /\ promises = <<>>
  /\ crashed = {} /\ posted = <<>> /\ log = <<>> /\ fetchPc = "idle"
  /\ iChunk = 0 /\ rstParts = <<>> /\ inFlight = {} /\ callLog = <<>>
  /\ rstFile = NotWritten /\ response = NoResponse /\ hpc = "start"
  /\ ChunkIdle /\ RetryIdle /\ RequestsIdle

\* ============================================= callOpenAIWithRetry alone
\* try { const response = await create(...); return response; }
CreateOk ==
  /\ rpc = "loop" /\ LoopCond(attempt, retries)
  /\ replies' = Append(replies, Completion(prompt))
  /\ outcome' = Completion(prompt)
  /\ rpc' = "returned"
  /\ UNCHANGED <<prompt, retries, delay, attempt, waits, notRetry>>

\* catch (error) { if (error.response && error.response.status === 429)
\*   { waitTime = ...; await setTimeout(waitTime) } else { throw error; } }
CreateFails ==
  /\ rpc = "loop" /\ LoopCond(attempt, retries)
  /\ \E e \in ServiceErrors :
       /\ replies' = Append(replies, e)
       /\ IF IsRateLimit(e)
          THEN /\ waits' = Append(waits, WaitTime(delay, attempt))
               /\ rpc' = "wait"
               /\ UNCHANGED outcome
          ELSE /\ outcome' = e
               /\ rpc' = "thrown"
               /\ UNCHANGED waits
  /\ UNCHANGED <<prompt, retries, delay, attempt, notRetry>>

\* the timer fires; attempt++ and back to the loop condition
WaitElapsed ==
  /\ rpc = "wait"
  /\ attempt' = NextAttempt(attempt)
  /\ rpc' = "loop"
  /\ UNCHANGED <<prompt, retries, delay, replies, waits, outcome, notRetry>>

\* the loop condition fails: throw new Error('Max retries reached ...')
MaxRetriesReached ==
  /\ rpc = "loop" /\ ~LoopCond(attempt, retries)
  /\ outcome' = MaxRetriesError
  /\ rpc' = "thrown"
  /\ UNCHANGED <<prompt, retries, delay, attempt, replies, waits, notRetry>>

Prompts == { Prompt(0, <<<<Run("p", 1)>>>>), Prompt(1, <<<<Run("p", 1)>>, <<Run("q", 2)>>>>) }
DelaySet == { 1, DefaultDelay }

InitRetry ==
  /\ prompt \in Prompts
  /\ retries \in 0..MaxRetries
  /\ delay \in DelaySet
  /\ attempt = 0 /\ replies = <<>> /\ waits = <<>>
  /\ outcome = NoValue /\ rpc = "loop"
  /\ ChunkIdle /\ FusedIdle /\ FetchIdle /\ HandlerIdle /\ RequestsIdle

NextRetry == CreateOk \/ CreateFails \/ WaitElapsed \/ MaxRetriesReached
SpecRetry == InitRetry /\ [][NextRetry]_vars

\* ========================================== one /generate-docs request
Next ==
  \/ RejectRequest \/ StartFetch \/ FetchThrew \/ ReadFile \/ NoSourceFound
  \/ ChunkSource \/ CallOpenAI \/ GotResponse \/ GenerationThrew
  \/ WriteRst \/ BuildSucceeds \/ BuildFails
  \/ CreateWriteStream \/ ListRoot \/ RootItem \/ NoDirectories \/ SpawnWorkers
  \/ WorkerRuns \/ WorkerCrashes \/ WorkerEvent \/ AllWorkersDone \/ StreamFinish
  \/ CreateOk \/ CreateFails \/ WaitElapsed \/ MaxRetriesReached
Spec == Init /\ [][Next]_vars

\* ==================== two /generate-docs requests in flight at the same time
\* Both handlers run in the one process and pass the same sourceFilePath,
\* generated_docs/source_code.txt, to fetchAllRepoContents and to readFile.
\* Here the file is kept character by character: every element is a run of
\* one character, so that a write at a position can overlay what is there.
RECURSIVE Explode(_)
Explode(text) ==
  IF text = <<>> THEN <<>>
  ELSE LET r == Head(text)
           once == [i \in 1..Len(r.c) |-> Run(SubSeq(r.c, i, i), 1)]
       IN (IF r.k = 0 THEN <<>> ELSE once \o Explode(<<Run(r.c, r.k - 1)>>))
          \o Explode(Tail(text))

\* the zero byte that fills a hole of a file
Hole == Run("NUL", 1)

\* A stream opened with flags 'w' keeps its own position in the file, which
\* starts at 0 and advances by what the stream writes: the bytes go to that
\* position whatever the size of the file has become, over what is there,
\* after a hole of zero bytes when the file is shorter.
WriteAt(f, pos, text) ==
  LET padded == IF Len(f) < pos THEN f \o [i \in 1..(pos - Len(f)) |-> Hole] ELSE f
  IN SubSeq(padded, 1, pos) \o text \o SubSeq(padded, pos + Len(text) + 1, Len(padded))

Requests == { 1, 2 }
\* Repositories with root-level files only: the workerCount === 0 path.
RequestRepos ==
  { Dir("", <<FileP>>, FALSE), Dir("", <<FileQ, FileN>>, FALSE),
    Dir("", <<ItemB, FileN>>, FALSE) }

NewRequest(d) ==
  [repo |-> d, pc |-> "start", rootItems |-> <<>>, itemIdx |-> 1, pos |-> 0,
   wrote |-> EmptyStr, sourceCode |-> EmptyStr]

InitTwo ==
  /\ requests \in [Requests -> { NewRequest(d) : d \in RequestRepos }]
  /\ ChunkIdle /\ FusedIdle /\ FetchIdle /\ RetryIdle /\ HandlerIdle

\* what the steps of a request leave alone
notRequests ==
  <<chunkVars, fusedVars, stream, rootItems, itemIdx, directories, workerCount,
    completedWorkers, threads, events, promises, crashed, posted, log, fetchPc,
    retryVars, handlerVars>>

\* await fetchAllRepoContents(..., sourceFilePath): createWriteStream(outputFile,
\* { flags: 'w' }) opens the file with truncation, the stream's position is 0
ReqCreateWriteStream(r) ==
  /\ requests[r].pc = "start"
  /\ file' = EmptyStr
  /\ requests' = [requests EXCEPT ![r].pc = "listRoot", ![r].pos = 0]
  /\ UNCHANGED notRequests

\* const rootItems = rootResponse.data
ReqListRoot(r) ==
  /\ requests[r].pc = "listRoot"
  /\ requests' = [requests EXCEPT ![r].rootItems = Page(requests[r].repo, PerPage, 1),
                                  ![r].pc = "rootLoop"]
  /\ UNCHANGED <<file, notRequests>>

\* one iteration of the loop over rootItems: writeStream.write(...) puts the
\* text at the position of this request's stream
ReqRootItem(r) ==
  /\ requests[r].pc = "rootLoop" /\ requests[r].itemIdx <= Len(requests[r].rootItems)
  /\ LET item == requests[r].rootItems[requests[r].itemIdx]
         text == Explode(FileText(item))
     IN IF Accepted(item) /\ StrLen(item.content) <= MaxFileChars
        THEN /\ file' = WriteAt(file, requests[r].pos, text)
             /\ requests' = [requests EXCEPT ![r].itemIdx = @ + 1,
                                             ![r].pos = @ + Len(text),
                                             ![r].wrote = @ \o text]
        ELSE /\ requests' = [requests EXCEPT ![r].itemIdx = @ + 1]
             /\ UNCHANGED file
  /\ UNCHANGED notRequests

\* workerCount === 0: writeStream.end(), 'finish', and the fetch returns
ReqFetchReturns(r) ==
  /\ requests[r].pc = "rootLoop" /\ requests[r].itemIdx > Len(requests[r].rootItems)
  /\ FilterDirs(requests[r].rootItems) = <<>>
  /\ requests' = [requests EXCEPT ![r].pc = "fetched"]
  /\ UNCHANGED <<file, notRequests>>

\* const sourceCode = await fs.readFile(sourceFilePath, 'utf8')
ReqReadFile(r) ==
  /\ requests[r].pc = "fetched"
  /\ requests' = [requests EXCEPT ![r].sourceCode = file, ![r].pc = "read"]
  /\ UNCHANGED <<file, notRequests>>

NextTwo ==
  \E r \in Requests :
    \/ ReqCreateWriteStream(r) \/ ReqListRoot(r) \/ ReqRootItem(r)
    \/ ReqFetchReturns(r) \/ ReqReadFile(r)
SpecTwo == InitTwo /\ [][NextTwo]_vars

\* ================================================================ claims
RECURSIVE SumSeq(_)
SumSeq(q) == IF q = <<>> THEN 0 ELSE Head(q) + SumSeq(Tail(q))

RECURSIVE Payloads(_)
\* The payloads of the workers q[1], q[2], ... one after the other.
Payloads(q) ==
  IF q = <<>> THEN EmptyStr
  ELSE fetchDirContents(directories[Head(q)]).data \o Payloads(Tail(q))

\* A worker fails when its thread raises 'error' or when its walk ends in the
\* error payload.
FailedWorkers ==
  { w \in 1..workerCount : w \in crashed \/ ~fetchDirContents(directories[w]).isString }
WorkersOver ==
  \A w \in 1..workerCount : threads[w] = "stopped" /\ events[w] = <<>>

\* C1: when exactly one of the N >= 1 workers fails and the others succeed,
\* the fetch does not fail, the file it returns with holds the root-level
\* files followed by the payloads of the other N-1 workers, and the failure
\* of the one subtree is logged.
C1_PartialFailure ==
  (workerCount >= 1 /\ WorkersOver /\ Cardinality(FailedWorkers) = 1)
  => /\ fetchPc # "thrown"
     /\ fetchPc = "returned" =>
          LET good == (1..workerCount) \ FailedWorkers
              bad == CHOOSE w \in FailedWorkers : TRUE
          IN /\ \E q \in SeqsUpTo(good, Cardinality(good)) :
                  /\ Len(q) = Cardinality(good) /\ NoRepeat(q)
                  /\ file = RootText(rootItems) \o Payloads(q)
             /\ \E i \in 1..Len(log) :
                  log[i] = [level |-> "error", path |-> directories[bad].path]

\* C2: the fetch throws only when the root listing call fails.
C2_OnlyRootListingFatal ==
  fetchPc = "thrown" => repo.fails

\* C3: neither chunker ever returns an empty chunk: every element of the
\* array returned by chunkSourceCode, and by the fetch of part_002 that
\* chunks as it goes, is a non-empty string.
C3_NoEmptyChunk ==
  /\ cpc = "done" =>
       \A i \in 1..Len(sourceCodeChunks) : sourceCodeChunks[i] # EmptyStr
  /\ (fusedPc = "done" /\ fusedResult.ok) =>
       \A i \in 1..Len(fusedResult.chunks) : fusedResult.chunks[i] # EmptyStr

\* C4: every chunk chunkSourceCode builds from more than one line has an
\* estimate, separators included, of at most maxTokens.
C4_ChunkBudget ==
  cpc = "done" =>
    \A i \in 1..Len(sourceCodeChunks) :
      chunkUnits[i] > 1 => countTokens(sourceCodeChunks[i]) <= maxTokens

\* C5: joining the chunks of chunkSourceCode with the line separator gives
\* back the input text exactly.
C5_RoundTrip ==
  cpc = "done" => Join(sourceCodeChunks, <<NL>>) = sourceCode

\* a occurs in b as a block of consecutive elements
IsBlockOf(a, b) ==
  \E k \in 0..(Len(b) - Len(a)) : SubSeq(b, k + 1, k + Len(a)) = a

\* The files fetchAllRepoContents wrote to the corpus the handler chunked.
WrittenFiles ==
  { n \in 1..Len(rootItems) :
      Accepted(rootItems[n]) /\ StrLen(rootItems[n].content) <= MaxFileChars }

\* C6: in the corpus written by fetchAllRepoContents and chunked by
\* chunkSourceCode, the header line and all content lines of every file lie
\* together inside one chunk, also when the file alone exceeds the budget.
C6_NoMidFileSplit ==
  hpc \in { "generating", "awaitGen", "build" } =>
    \A n \in WrittenFiles :
      \E j \in 1..Len(sourceCodeChunks) :
        IsBlockOf(Split(Tail(FileText(rootItems[n]))), Split(sourceCodeChunks[j]))

\* C7: when the service answers 429 exactly k < retries times and then
\* succeeds, the client returns that response after k+1 attempts, having
\* waited delay*2^i before retry i, delay*(2^k - 1) in all.
C7_RetrySuccess ==
  LET k == Len(replies) - 1
  IN (/\ replies # <<>>
      /\ replies[Len(replies)].ok
      /\ k < retries
      /\ \A i \in 1..k : replies[i] = Err429)
     => /\ rpc = "returned"
        /\ outcome = Completion(prompt)
        /\ attempt = k
        /\ Len(waits) = k
        /\ \A i \in 0..(k-1) : waits[i+1] = delay * Pow2(i)
        /\ SumSeq(waits) = delay * (Pow2(k) - 1)

C7_Witness ==
  /\ rpc = "returned" /\ Len(waits) = 2
  /\ retries = DefaultRetries /\ delay = DefaultDelay

\* C8: when every attempt is answered 429 the client makes exactly
\* `retries` attempts, never more, and then throws the 'Max retries
\* reached' error, which is none of the errors a single call fails with.
C8_RetryExhaustion ==
  (\A i \in 1..Len(replies) : replies[i] = Err429)
  => /\ Len(replies) <= retries
     /\ rpc # "returned"
     /\ rpc = "thrown" =>
          /\ Len(replies) = retries
          /\ outcome = MaxRetriesError
          /\ outcome \notin ServiceErrors

C8_Witness ==
  /\ rpc = "thrown" /\ outcome = MaxRetriesError
  /\ retries = DefaultRetries /\ Len(replies) = DefaultRetries

\* C9: a call that fails with anything but the 429 signal is the last
\* call: its error is thrown to the caller at once, with no wait after it
\* and no further attempt.
C9_NoRetryOnOtherError ==
  \A i \in 1..Len(replies) :
    replies[i] \in { Err500, ErrNet }
    => /\ i = Len(replies)
       /\ rpc = "thrown"
       /\ outcome = replies[i]
       /\ Len(waits) = i - 1
       /\ attempt = i - 1

C9_Witness ==
  /\ rpc = "thrown" /\ outcome = Err500 /\ Len(replies) = 2

\* C10: within one request the generation calls are made one at a time in
\* chunk order: call k+1 starts only after call k has ended, at most one call
\* is in flight, every attempt is made for the chunk whose call is in flight,
\* and the k-th fragment (also in the joined document) answers the k-th chunk.
C10_SequentialInOrder ==
  /\ Cardinality(inFlight) <= 1
  /\ \A n \in 1..Len(callLog) :
       callLog[n] = [ev |-> IF n % 2 = 1 THEN "start" ELSE "end",
                     chunk |-> (n - 1) \div 2]
  /\ rpc \in { "loop", "wait", "returned", "thrown" } =>
       /\ inFlight = {iChunk}
       /\ prompt = Prompt(iChunk, sourceCodeChunks)
       /\ \A n \in 1..Len(replies) :
            replies[n].ok => replies[n] = Completion(Prompt(iChunk, sourceCodeChunks))
  /\ \A n \in 1..Len(rstParts) :
       rstParts[n] = Content(Completion(Prompt(n - 1, sourceCodeChunks)))
  /\ rstFile # NotWritten =>
       rstFile = Join([n \in 1..Len(sourceCodeChunks) |->
                         Content(Completion(Prompt(n - 1, sourceCodeChunks)))],
                      Separator)

C10_Witness ==
  /\ response.status = 200 /\ Len(rstParts) >= 2
  /\ Len(sourceCodeChunks) = Len(rstParts)

\* The generation call for chunk iChunk has thrown: callOpenAIWithRetry ended
\* with an error that was not followed by a new call.
GenerationFailed ==
  /\ rpc \in { "thrown", "idle" }
  /\ outcome # NoValue /\ ~outcome.ok

\* C11: once the generation call for chunk i has failed for good (retries
\* exhausted or an error that is not retried), no call is made for a later
\* chunk, no RST document is written, no build is started, and the request
\* ends with an error response, not with a download link; a document that is
\* written holds a fragment for every chunk.
C11_NoPartialDocument ==
  /\ GenerationFailed =>
       /\ hpc \in { "awaitGen", "done" }
       /\ \A n \in 1..Len(callLog) : callLog[n].chunk <= iChunk
       /\ rstFile = NotWritten
       /\ hpc = "done" =>
            /\ response.status >= 400
            /\ response.body # "downloadLink"
  /\ rstFile # NotWritten => Len(rstParts) = Len(sourceCodeChunks)

\* The second chunk's call fails after the first fragment was received, with
\* further chunks still to come.
C11_Witness ==
  /\ hpc = "done" /\ GenerationFailed
  /\ Len(rstParts) = 1 /\ iChunk = 1 /\ Len(sourceCodeChunks) >= 3
  /\ outcome = MaxRetriesError

RECURSIVE AllFiles(_)
\* The file items of a listing and of the directories below it, at any depth.
AllFiles(items) ==
  IF items = <<>> THEN {}
  ELSE (IF Head(items).type = "file" THEN { Head(items) }
        ELSE AllFiles(Head(items).entries)) \cup AllFiles(Tail(items))

\* The files that pass the extension filter and can be read.
Matching(items) == { f \in AllFiles(items) : Accepted(f) /\ ~f.fails }
Oversized(f) == StrLen(f.content) > MaxFileChars

\* C12: a file of more than 500,000 characters is never in the output, of
\* server.js (root loop or worker) or of part_002, and skipping it fails
\* nothing; a matching file of 500,000 characters or fewer is in the output
\* the fetch returns with; a repository whose only matching file has 600,000
\* characters gives zero chunks and no generation call.
C12_SizeCeiling ==
  /\ \A f \in Matching(rootItems) : Oversized(f) => ~IsBlockOf(FileText(f), file)
  /\ fetchPc = "returned" =>
       \A f \in Matching(rootItems) : ~Oversized(f) => IsBlockOf(FileText(f), file)
  /\ (fusedPc = "done" /\ fusedResult.ok) =>
       \A f \in Matching(repo.entries) :
         Oversized(f) <=>
           ~\E n \in 1..Len(fusedResult.chunks) : IsBlockOf(FileText(f), fusedResult.chunks[n])
  /\ (hpc = "done" /\ fetchPc = "returned" /\ Matching(repo.entries) # {}
        /\ \A f \in Matching(repo.entries) : Oversized(f)) =>
       /\ sourceCodeChunks = <<>> /\ callLog = <<>>
       /\ response = [status |-> 400, body |-> "No relevant source code found"]

\* The places where a occurs in b as a block of consecutive elements.
Places(a, b) ==
  { k \in 0..(Len(b) - Len(a)) : SubSeq(b, k + 1, k + Len(a)) = a }

\* C13: the artifact fetchAllRepoContents (server.js) returns with holds
\* exactly one block for every file with an accepted extension, in the root
\* and in the directory of every worker, and none for any other file, and
\* every root-level block stands before every block of a worker; for root
\* files a.py and b.txt beside lib/ with c.js it is the block of a.py
\* followed by the block of lib/c.js.
C13_FilterAndOrder ==
  fetchPc = "returned" =>
    LET Wanted(f) == Accepted(f) /\ ~f.fails /\ ~Oversized(f)
        Count(f) == Cardinality(Places(FileText(f), file))
        Listed(items) == { items[n] : n \in { m \in 1..Len(items) : items[m].type = "file" } }
    IN /\ \A f \in Listed(rootItems) : Count(f) = IF Wanted(f) THEN 1 ELSE 0
       /\ \A w \in 1..workerCount :
            \A g \in Listed(directories[w].entries) :
              /\ Count(g) = IF Wanted(g) THEN 1 ELSE 0
              /\ \A f \in Listed(rootItems) :
                   \A i \in Places(FileText(f), file), j \in Places(FileText(g), file) : i < j
       /\ repo.entries = <<ItemA, ItemB, DirLib>> =>
            file = FileText(ItemA) \o FileText(DirLib.entries[1])

\* C14: the handler ends a failed request with one of three responses that
\* tell the causes apart: 'no source found' for an empty corpus, one for a
\* failed generation call and another for a failed fetch; the response to a
\* fetch failure is never the response to a generation failure.
C14_DistinctFailures ==
  LET GenerationResponses ==
        { CatchResponse(e) : e \in ServiceErrors \cup { MaxRetriesError } }
      NoSource == [status |-> 400, body |-> "No relevant source code found"]
  IN hpc = "done" =>
       /\ (fetchPc = "returned" /\ file = EmptyStr) => response = NoSource
       /\ GenerationFailed =>
            /\ response \in GenerationResponses
            /\ response # NoSource
       /\ fetchPc = "thrown" =>
            /\ response.status >= 400
            /\ response # NoSource
            /\ response \notin GenerationResponses

\* C15: countTokens returns an integer >= 0, 0 for the empty string; the
\* estimate of server.js is ceil(length / 4); when the tokenizer of part_002
\* is unavailable or its encode throws, countTokens of part_002 raises
\* nothing and returns that same value.
C15_EstimatorFallback ==
  cpc = "measured" =>
    LET n == StrLen(sourceCode)
    IN /\ estimate.server \in Nat /\ estimate.fused \in Nat
       /\ sourceCode = EmptyStr => (estimate.server = 0 /\ estimate.fused = 0)
       /\ 4 * estimate.server >= n /\ 4 * (estimate.server - 1) < n
       /\ tiktoken \in { "undefined", "throws" } => estimate.fused = estimate.server

\* encode throws on a text whose length is no multiple of 4
C15_Witness ==
  /\ cpc = "measured" /\ tiktoken = "throws"
  /\ StrLen(sourceCode) % 4 = 1 /\ estimate.fused > 10000

\* C16: two file blocks that fit the budget each but not together make
\* exactly two chunks, the first holding the first file only and the second
\* the second file only: a block that does not fit after a non-empty
\* accumulator is not appended, not even in part, but starts a new chunk.
\* With a budget of 10 tokens and two files of 8 tokens this gives two chunks.
C16_SecondFileNewChunk ==
  /\ cpc = "done" =>
       \A f, g \in SmallFiles :
         (/\ sourceCode = FileText(f) \o FileText(g)
          /\ countTokens(FileText(f)) <= maxTokens
          /\ countTokens(FileText(g)) <= maxTokens
          /\ countTokens(FileText(f) \o FileText(g)) > maxTokens)
         => sourceCodeChunks = << Tail(FileText(f)), Tail(FileText(g)) >>
  /\ (fusedPc = "done" /\ fusedResult.ok) =>
       \A f, g \in Matching(repo.entries) :
         (/\ repo.entries = <<f, g>>
          /\ countTokensTk(FileText(f), tiktoken) <= FusedBudget
          /\ countTokensTk(FileText(g), tiktoken) <= FusedBudget
          /\ countTokensTk(FileText(f) \o FileText(g), tiktoken) > FusedBudget)
         => fusedResult.chunks = << FileText(f), FileText(g) >>

\* C17: every worker that ran its script has, by the time its thread has
\* stopped, posted exactly one message: the result of fetchDirContents for
\* its directory (the joined contents after all reads, or the error
\* payload); none exits without having posted.
C17_OneMessagePerWorker ==
  \A w \in 1..workerCount :
    (threads[w] = "stopped" /\ w \notin crashed)
    => posted[w] = << fetchDirContents(directories[w]) >>

\* C18: fetchAllRepoContents returns only after every worker has exited and
\* the stream has finished: when it has returned, completedWorkers is the
\* number of root-level directories, no worker thread is running, no event
\* of a worker is unhandled, and the stream has ended and emitted 'finish'.
C18_ReturnsAfterAllWorkers ==
  fetchPc = "returned" =>
    /\ workerCount = Len(FilterDirs(rootItems))
    /\ completedWorkers = workerCount
    /\ \A w \in 1..workerCount :
         threads[w] = "stopped" /\ events[w] = <<>> /\ promises[w] = "resolved"
    /\ stream.ended /\ stream.finished

\* the fetch has returned after the exits of two workers
C18_Witness ==
  /\ fetchPc = "returned" /\ workerCount = 2 /\ completedWorkers = 2
  /\ stream.finished

\* The workers whose walk ends with a string payload.
SuccessfulWorkers ==
  { w \in 1..workerCount : w \notin crashed /\ fetchDirContents(directories[w]).isString }

\* C19: at every moment the artifact is the text of the root files written
\* so far followed by whole payloads of distinct workers, one after the
\* other in the order their messages were handled, and when the fetch
\* returns the payload of every successful worker is there exactly once.
C19_SingleWriter ==
  fetchPc \notin { "idle", "called" } =>
    \E q \in { r \in SeqsUpTo(1..workerCount, workerCount) : NoRepeat(r) } :
      /\ file = RootText(SubSeq(rootItems, 1, itemIdx - 1)) \o Payloads(q)
      /\ fetchPc = "returned" => { q[n] : n \in 1..Len(q) } = SuccessfulWorkers

\* C20: for every root-level directory d the worker's walk collects, and the
\* artifact the fetch returns with holds, every matching file of at most
\* 500,000 characters at any depth below d.
C20_WholeSubtree ==
  \A w \in 1..workerCount :
    \A f \in Matching(directories[w].entries) :
      ~Oversized(f) =>
        /\ fetchDirContents(directories[w]).isString =>
             IsBlockOf(FileText(f), fetchDirContents(directories[w]).data)
        /\ fetchPc = "returned" => IsBlockOf(FileText(f), file)

\* C21: every directory listing is paginated to the end, the root included:
\* when the fetch returns, the block of every accepted, not oversized file of
\* the root listing is in the output file, also when the remote serves the
\* entry on a second or later page.
C21_PaginatedToTheEnd ==
  fetchPc = "returned" =>
    \A n \in 1..Len(repo.entries) :
      LET f == repo.entries[n]
      IN (Accepted(f) /\ ~f.fails /\ ~Oversized(f)) => IsBlockOf(FileText(f), file)

\* C22: for a fixed remote repository the fetch always produces the same
\* file: the text of the root-level files followed by the contributions of
\* the subdirectories in one fixed order, that of the root listing, whatever
\* order the workers complete in.
C22_DeterministicMerge ==
  fetchPc = "returned" =>
    file = RootText(rootItems) \o Payloads([w \in 1..workerCount |-> w])

RECURSIVE TreeText(_)
\* The header+content blocks of the accepted, not oversized files of a tree,
\* depth-first: a directory's files at the place of the directory.
TreeText(items) ==
  IF items = <<>> THEN EmptyStr
  ELSE LET item == Head(items)
       IN (IF Accepted(item) /\ ~Oversized(item) THEN FileText(item)
           ELSE IF item.type = "dir" THEN TreeText(item.entries)
           ELSE EmptyStr) \o TreeText(Tail(items))

\* C23: the chunks the recursive fetchAllRepoContents of part_002 returns,
\* put together in order, are the blocks of all accepted, not oversized files
\* of the tree in listing order, depth-first, each once; and a chunk built
\* from more than one block has an estimate of at most 25,000 tokens.
C23_FusedOrderAndBudget ==
  (fusedPc = "done" /\ fusedResult.ok) =>
    /\ Join(fusedResult.chunks, EmptyStr) = TreeText(repo.entries)
    /\ \A i \in 1..Len(fusedResult.chunks) :
         LET chunk == fusedResult.chunks[i]
         IN (chunk # EmptyStr /\ \A f \in AllFiles(repo.entries) : chunk # FileText(f))
            => countTokensTk(chunk, tiktoken) <= FusedBudget

\* The listing call of directory d fails, or the read of one of its accepted
\* files does, at any depth.
RECURSIVE FailsInside(_)
FailsInside(d) ==
  \/ d.fails
  \/ \E n \in 1..Len(d.entries) :
       LET item == d.entries[n]
       IN IF item.type = "dir" THEN FailsInside(item)
          ELSE Accepted(item) /\ item.fails

\* C24: a failure while listing or reading inside a subdirectory does not
\* leave the top-level call of part_002's fetchAllRepoContents: the call
\* returns, and the blocks of the root-level files it listed are in the
\* chunks it returns.
C24_SubtreeFailureContained ==
  (/\ fusedPc = "done"
   /\ ~repo.fails
   /\ \A n \in 1..Len(repo.entries) : repo.entries[n].type = "file" => ~repo.entries[n].fails
   /\ \E n \in 1..Len(repo.entries) :
        repo.entries[n].type = "dir" /\ FailsInside(repo.entries[n]))
  => /\ fusedResult.ok
     /\ \A n \in 1..Len(Page(repo, repo.pageSize, 1)) :
          LET f == repo.entries[n]
          IN (Accepted(f) /\ ~Oversized(f)) =>
               \E i \in 1..Len(fusedResult.chunks) :
                 IsBlockOf(FileText(f), fusedResult.chunks[i])

\* C25: once the root listing has succeeded and every worker has exited
\* without an 'error' event, the call returns; it cannot wait for ever for
\* 'finish'.  As a property of single states: while the call waits for
\* 'finish' the stream has not emitted it yet, since the event is emitted
\* once and a listener registered after it is never called.
C25_FinishNotMissed ==
  (fetchPc = "awaitFinish" /\ crashed = {} /\ WorkersOver) => ~stream.finished

\* C26: in every execution of the fetch, completedWorkers never exceeds
\* workerCount; end() is called at most once, and only when every worker has
\* exited and its exit has been counted, or at once when the root listing
\* has no directory; no write to the stream is made after end().
C26_SinkLifecycle ==
  /\ completedWorkers <= workerCount
  /\ stream.endCalls <= 1
  /\ stream.ended <=> stream.endCalls = 1
  /\ stream.ended =>
       /\ completedWorkers = workerCount
       /\ \A w \in 1..workerCount : threads[w] = "stopped"
  /\ (fetchPc \in { "awaitFinish", "returned" } /\ workerCount = 0) => stream.ended
  /\ stream.lateWrites = 0

\* Two workers have exited, the second exit has ended the stream after the
\* root-level writes, and the call has returned.
C26_Witness ==
  /\ workerCount = 2 /\ completedWorkers = 2
  /\ stream.endCalls = 1 /\ stream.lateWrites = 0
  /\ file # EmptyStr
  /\ fetchPc = "returned"

\* C27: the number of waits always equals the number of rate-limited
\* attempts, the i-th wait being delay*2^(i-1); so when the retries are
\* exhausted the client has waited delay*2^(retries-1) after its last attempt
\* and delay*(2^retries - 1) in all; with retries = 0 no attempt and no wait
\* is made and the terminal error is raised at once.
C27_BackoffAccounting ==
  /\ Len(waits) = Cardinality({ i \in 1..Len(replies) : replies[i] = Err429 })
  /\ \A i \in 1..Len(waits) : waits[i] = delay * Pow2(i - 1)
  /\ (rpc = "thrown" /\ outcome = MaxRetriesError) =>
       /\ Len(waits) = retries
       /\ retries > 0 => waits[retries] = delay * Pow2(retries - 1)
       /\ SumSeq(waits) = delay * (Pow2(retries) - 1)
  /\ retries = 0 =>
       /\ replies = <<>> /\ waits = <<>>
       /\ rpc \in { "loop", "thrown" }
       /\ rpc = "thrown" => outcome = MaxRetriesError

\* The default call, exhausted: it has waited 1000 + 2000 + 4000.
C27_Witness ==
  /\ rpc = "thrown" /\ outcome = MaxRetriesError
  /\ retries = DefaultRetries /\ delay = DefaultDelay
  /\ waits[Len(waits)] = DefaultDelay * Pow2(DefaultRetries - 1)
  /\ SumSeq(waits) = DefaultDelay * (Pow2(DefaultRetries) - 1)

\* C28: when two requests are in flight at the same time, the source text a
\* request reads back is exactly the text its own fetch wrote; the other
\* request's text is not in it and has not truncated or replaced it.
C28_RequestIsolation ==
  \A r \in DOMAIN requests :
    requests[r].pc = "read" => requests[r].sourceCode = requests[r].wrote
====
